---- MODULE Spec2Model ----
(***************************************************************************)
(* TrustedHTML (koto/trusted-types): the trusted-string type, its          *)
(* configuration (sanitizer registry, unsafe-create gate, freeze) and the  *)
(* template-literal interpolation engine.                                  *)
(*                                                                         *)
(* Two source files define a TrustedHTML and publish it under              *)
(* window['TrustedHTML'] behind the same guard:                            *)
(*   "es6"  = src/src/types/trustedhtml.js  (class, registry, gate)        *)
(*   "goog" = src/unnamed/part_000          (goog.provide constructor)     *)
(*                                                                         *)
(* Strings are sequences of one-character strings.  The host's DOMParser,  *)
(* innerHTML and NodeIterator are modelled after the HTML standard for the *)
(* markup the inputs can produce: ordinary elements, double-quoted,        *)
(* single-quoted and unquoted attributes, text, and the six character      *)
(* references TrustedHTML.escape emits.                                    *)
(***************************************************************************)
EXTENDS Integers, Sequences, FiniteSets

VARIABLES
  sanitizers_,           \* the registry object: own properties and frozen flag
  allowUnsafelyCreate_,  \* the gate object: 'allowed' and frozen flag
  windowTrustedHTML,     \* which copy's class is published as window['TrustedHTML']
  loaded,                \* the copies of the module evaluated so far
  held,                  \* a TrustedHTML the caller kept from an earlier call
  ret                    \* the call just made: operation, arguments, outcome

vars == <<sanitizers_, allowUnsafelyCreate_, windowTrustedHTML, loaded, held, ret>>

(***************************************************************************)
(* Bounds of the model.                                                    *)
(***************************************************************************)
MaxLen == 4        \* lexemes in a template literal, interpolation slots included
MaxHoles == 2      \* interpolation slots in a template literal
MaxEscapeLen == 4  \* characters of an argument of escape in SpecEscape
MaxNesting == 3    \* substitutions nested inside one another before the walk is cut off
MaxLenCopies == 3  \* lexemes in a template literal in SpecCopies
MaxLiteralLen == 4 \* lexemes in a template literal in SpecLiteral

(***************************************************************************)
(* Characters and strings.                                                 *)
(***************************************************************************)
NUL == "\\0"         \* U+0000
FFFD == "\\uFFFD"    \* U+FFFD, what the parser makes of &#0;

Digits == {"0", "1", "2", "3", "4", "5", "6", "7", "8", "9"}
Letters == {"a", "b", "c", "d", "e", "f", "g", "h", "i", "j", "k", "l", "m", "n",
            "o", "p", "q", "r", "s", "t", "u", "v", "w", "x", "y", "z"}

DigitValue(c) ==
  CASE c = "0" -> 0 [] c = "1" -> 1 [] c = "2" -> 2 [] c = "3" -> 3 [] c = "4" -> 4
    [] c = "5" -> 5 [] c = "6" -> 6 [] c = "7" -> 7 [] c = "8" -> 8 [] c = "9" -> 9

DigitChar(n) ==
  CASE n = 0 -> "0" [] n = 1 -> "1" [] n = 2 -> "2" [] n = 3 -> "3" [] n = 4 -> "4"
    [] n = 5 -> "5" [] n = 6 -> "6" [] n = 7 -> "7" [] n = 8 -> "8" [] n = 9 -> "9"

\* the least member of a nonempty set of positions
Least(ks) == CHOOSE k \in ks : \A m \in ks : k =< m

RECURSIVE Concat(_)
Concat(ss) == IF ss = <<>> THEN <<>> ELSE Head(ss) \o Concat(Tail(ss))

\* s has t at position p
HasAt(s, p, t) ==
  /\ p >= 1
  /\ p + Len(t) - 1 =< Len(s)
  /\ \A k \in 1..Len(t) : s[p + k - 1] = t[k]

Slice(s, a, b) == IF a > b THEN <<>> ELSE SubSeq(s, a, b)

\* String.prototype.replace(/c/g, r) for a one-character pattern
RECURSIVE ReplaceChar(_, _, _)
ReplaceChar(s, c, r) ==
  IF s = <<>> THEN <<>>
  ELSE (IF Head(s) = c THEN r ELSE <<Head(s)>>) \o ReplaceChar(Tail(s), c, r)

(***************************************************************************)
(* JavaScript values that reach the module.                                *)
(***************************************************************************)
Undefined == [t |-> "undefined"]
Str(s) == [t |-> "string", s |-> s]
Bool(b) == [t |-> "boolean", b |-> b]
NoValue == [t |-> "none"]    \* nothing returned: the call threw, or never ended

UndefinedText == <<"u", "n", "d", "e", "f", "i", "n", "e", "d">>

\* new TrustedHTML(inner) of copy c, without template arguments
TrustedHTML(c, inner) == [t |-> "TrustedHTML", cls |-> c, inner_ |-> inner]

\* TrustedHTML.prototype.toString
toString(v) == v.inner_

\* the string form JavaScript gives a value where a string is wanted
ToString(v) ==
  CASE v.t = "string" -> v.s
    [] v.t = "undefined" -> UndefinedText
    [] v.t = "boolean" -> IF v.b THEN <<"t", "r", "u", "e">> ELSE <<"f", "a", "l", "s", "e">>
    [] v.t = "TrustedHTML" -> toString(v)

\* !!value
ToBoolean(v) ==
  CASE v.t = "boolean" -> v.b
    [] v.t = "string" -> v.s # <<>>
    [] v.t = "undefined" -> FALSE
    [] v.t = "TrustedHTML" -> TRUE

\* value instanceof window['TrustedHTML']
InstanceOfWindowTrustedHTML(v, win) == v.t = "TrustedHTML" /\ v.cls = win

(***************************************************************************)
(* The call record.                                                        *)
(***************************************************************************)
NoCall ==
  [op |-> "none", copy |-> "", html |-> <<>>, id |-> "", arg |-> NoValue,
   strings |-> <<>>, expressions |-> <<>>, status |-> "", value |-> NoValue,
   culprit |-> NoValue]

(***************************************************************************)
(* escape                                                                  *)
(***************************************************************************)
Amp == <<"&", "a", "m", "p", ";">>
Lt == <<"&", "l", "t", ";">>
Gt == <<"&", "g", "t", ";">>
Quot == <<"&", "q", "u", "o", "t", ";">>
Apos == <<"&", "#", "3", "9", ";">>
Zero == <<"&", "#", "0", ";">>

EscapeAmpersandLast(html) ==
  ReplaceChar(ReplaceChar(ReplaceChar(ReplaceChar(ReplaceChar(ReplaceChar(
    html, "<", Lt), ">", Gt), "\"", Quot), "'", Apos), NUL, Zero), "&", Amp)

\* the chain of replace calls of escape
EscapeText(html) ==
  ReplaceChar(ReplaceChar(ReplaceChar(ReplaceChar(ReplaceChar(ReplaceChar(
    html, "&", Amp), "<", Lt), ">", Gt), "\"", Quot), "'", Apos), NUL, Zero)

escape(c, html) ==
  /\ ret = NoCall
  /\ c \in loaded
  /\ ret' = [NoCall EXCEPT !.op = "escape", !.copy = c, !.html = html,
                           !.status = "ok",
                           !.value = TrustedHTML(c, EscapeText(html))]
  /\ UNCHANGED <<sanitizers_, allowUnsafelyCreate_, windowTrustedHTML, loaded, held>>

(***************************************************************************)
(* The sanitizer registry and the unsafe-create gate.                      *)
(***************************************************************************)
DEFAULT_SANITIZER_ == "default"

Omitted == "(omitted)"   \* an optional argument left out: undefined
Absent == "(absent)"     \* no own property under this name

\* The names callers use; two of them are also properties every plain object
\* inherits from Object.prototype.
SanitizerIds == {DEFAULT_SANITIZER_, "strict", "toString", "constructor"}

\* Caller-supplied sanitizer functions (string -> string).
Sanitizers == {"dropAngles", "blank"}

ObjectObject ==
  <<"[", "o", "b", "j", "e", "c", "t", " ", "O", "b", "j", "e", "c", "t", "]">>

\* f(html) for what a lookup in sanitizers_ can yield: a registered function,
\* or Object.prototype.toString / Object called with this = sanitizers_
Apply(f, html) ==
  CASE f = "dropAngles" -> ReplaceChar(ReplaceChar(html, "<", <<>>), ">", <<>>)
    [] f = "blank" -> <<>>
    [] f = "Object.prototype.toString" -> ObjectObject
    [] f = "Object.prototype.constructor" -> html

\* sanitizers_[id]: the own property, else what the prototype chain gives
Lookup(obj, id) ==
  IF obj.own[id] # Absent THEN obj.own[id]
  ELSE IF id = "toString" THEN "Object.prototype.toString"
  ELSE IF id = "constructor" THEN "Object.prototype.constructor"
  ELSE Absent

sanitize(html, optSanitizerId) ==
  LET id == IF optSanitizerId = Omitted THEN DEFAULT_SANITIZER_ ELSE optSanitizerId
      call == [NoCall EXCEPT !.op = "sanitize", !.copy = "es6", !.html = html,
                             !.id = optSanitizerId]
  IN /\ ret = NoCall
     /\ "es6" \in loaded
     /\ ret' = IF Lookup(sanitizers_, id) = Absent
               THEN [call EXCEPT !.status = "TypeError"]
               ELSE [call EXCEPT !.status = "ok",
                       !.value = TrustedHTML("es6", Apply(Lookup(sanitizers_, id), html))]
     /\ UNCHANGED <<sanitizers_, allowUnsafelyCreate_, windowTrustedHTML, loaded, held>>

\* sloppy-mode assignment: a write to a frozen object is dropped silently
registerSanitizerSloppy(sanitizer, optSanitizerId) ==
  LET id == IF optSanitizerId = Omitted THEN DEFAULT_SANITIZER_ ELSE optSanitizerId
      call == [NoCall EXCEPT !.op = "registerSanitizer", !.copy = "es6",
                             !.id = optSanitizerId, !.arg = Str(<<sanitizer>>)]
  IN /\ ret = NoCall
     /\ "es6" \in loaded
     /\ ret' = [call EXCEPT !.status = "ok"]
     /\ sanitizers_' = IF sanitizers_.frozen THEN sanitizers_
                       ELSE [sanitizers_ EXCEPT !.own[id] = sanitizer]
     /\ UNCHANGED <<allowUnsafelyCreate_, windowTrustedHTML, loaded, held>>

\* Class bodies are strict code: the assignment throws on a frozen object.
registerSanitizer(sanitizer, optSanitizerId) ==
  LET id == IF optSanitizerId = Omitted THEN DEFAULT_SANITIZER_ ELSE optSanitizerId
      call == [NoCall EXCEPT !.op = "registerSanitizer", !.copy = "es6",
                             !.id = optSanitizerId, !.arg = Str(<<sanitizer>>)]
  IN /\ ret = NoCall
     /\ "es6" \in loaded
     /\ IF sanitizers_.frozen
        THEN /\ ret' = [call EXCEPT !.status = "TypeError"]
             /\ UNCHANGED sanitizers_
        ELSE /\ ret' = [call EXCEPT !.status = "ok"]
             /\ sanitizers_' = [sanitizers_ EXCEPT !.own[id] = sanitizer]
     /\ UNCHANGED <<allowUnsafelyCreate_, windowTrustedHTML, loaded, held>>

\* unsafelyCreate without the gate, as in the goog copy
unsafelyCreateUngated(c, html) ==
  /\ ret = NoCall
  /\ c \in loaded
  /\ ret' = [NoCall EXCEPT !.op = "unsafelyCreate", !.copy = c, !.html = html,
                           !.status = "ok", !.value = TrustedHTML(c, html)]
  /\ UNCHANGED <<sanitizers_, allowUnsafelyCreate_, windowTrustedHTML, loaded, held>>

\* The es6 copy checks its gate; the goog copy has none.
unsafelyCreate(c, html) ==
  LET call == [NoCall EXCEPT !.op = "unsafelyCreate", !.copy = c, !.html = html]
  IN /\ ret = NoCall
     /\ c \in loaded
     /\ ret' = IF c = "es6" /\ ~allowUnsafelyCreate_.allowed
               THEN [call EXCEPT !.status = "TypeError"]
               ELSE [call EXCEPT !.status = "ok", !.value = TrustedHTML(c, html)]
     /\ UNCHANGED <<sanitizers_, allowUnsafelyCreate_, windowTrustedHTML, loaded, held>>

\* static set allowUnsafelyCreate(value)
setAllowUnsafelyCreate(value) ==
  LET call == [NoCall EXCEPT !.op = "setAllowUnsafelyCreate", !.copy = "es6",
                             !.arg = value]
  IN /\ ret = NoCall
     /\ "es6" \in loaded
     /\ IF allowUnsafelyCreate_.frozen
        THEN /\ ret' = [call EXCEPT !.status = "TypeError"]
             /\ UNCHANGED allowUnsafelyCreate_
        ELSE /\ ret' = [call EXCEPT !.status = "ok"]
             /\ allowUnsafelyCreate_' =
                  [allowUnsafelyCreate_ EXCEPT !.allowed = ToBoolean(value)]
     /\ UNCHANGED <<sanitizers_, windowTrustedHTML, loaded, held>>

\* static get allowUnsafelyCreate()
getAllowUnsafelyCreate ==
  /\ ret = NoCall
  /\ "es6" \in loaded
  /\ ret' = [NoCall EXCEPT !.op = "getAllowUnsafelyCreate", !.copy = "es6",
                           !.status = "ok",
                           !.value = Bool(allowUnsafelyCreate_.allowed)]
  /\ UNCHANGED <<sanitizers_, allowUnsafelyCreate_, windowTrustedHTML, loaded, held>>

freezeConfiguration ==
  /\ ret = NoCall
  /\ "es6" \in loaded
  /\ ret' = [NoCall EXCEPT !.op = "freezeConfiguration", !.copy = "es6",
                           !.status = "ok"]
  /\ sanitizers_' = [sanitizers_ EXCEPT !.frozen = TRUE]
  /\ allowUnsafelyCreate_' = [allowUnsafelyCreate_ EXCEPT !.frozen = TRUE]
  /\ UNCHANGED <<windowTrustedHTML, loaded, held>>

(***************************************************************************)
(* The host's HTML tokenizer (DOMParser.parseFromString, innerHTML =).     *)
(* Tag names, attribute names and text are sequences of characters.  The   *)
(* inputs hold no '!' or '?' after '<', no upper-case letters in tags, no  *)
(* white space but the space, and no character reference other than the   *)
(* six escape writes.                                                      *)
(***************************************************************************)
ChrTok(cs) == [type |-> "chr", name |-> <<>>, attrs |-> <<>>, data |-> cs]
TagTok(type, name, attrs) == [type |-> type, name |-> name, attrs |-> attrs, data |-> <<>>]

\* the tag or comment being tokenized: an (name) and av (value) are the
\* attribute being read when open
NewTag(type) ==
  [type |-> type, name |-> <<>>, attrs |-> <<>>, an |-> <<>>, av |-> <<>>, open |-> FALSE]

\* an attribute whose name the tag already has is dropped
CommitAttr(tok) ==
  IF ~tok.open THEN tok
  ELSE [tok EXCEPT
          !.attrs = IF \E k \in 1..Len(tok.attrs) : tok.attrs[k].name = tok.an
                    THEN @ ELSE Append(@, [name |-> tok.an, value |-> tok.av]),
          !.an = <<>>, !.av = <<>>, !.open = FALSE]

StartAttr(tok) == [CommitAttr(tok) EXCEPT !.open = TRUE]

Emit(out, tok) ==
  LET done == CommitAttr(tok)
  IN Append(out, TagTok(done.type, done.name,
                        IF done.type = "end" THEN <<>> ELSE done.attrs))

\* the character reference at s[i] = "&": how many characters it takes and
\* the character it stands for
CharRef(s, i) ==
  CASE HasAt(s, i, Amp) -> [len |-> Len(Amp), chr |-> "&"]
    [] HasAt(s, i, Lt) -> [len |-> Len(Lt), chr |-> "<"]
    [] HasAt(s, i, Gt) -> [len |-> Len(Gt), chr |-> ">"]
    [] HasAt(s, i, Quot) -> [len |-> Len(Quot), chr |-> "\""]
    [] HasAt(s, i, Apos) -> [len |-> Len(Apos), chr |-> "'"]
    [] HasAt(s, i, Zero) -> [len |-> Len(Zero), chr |-> FFFD]
    [] OTHER -> [len |-> 1, chr |-> "&"]

\* the first position from i on that holds a character of stop; Len(s) + 1
\* when none does
Find(s, i, stop) ==
  LET hits == {p \in i..Len(s) : s[p] \in stop}
  IN IF hits = {} THEN Len(s) + 1 ELSE Least(hits)

\* s[i..e-1] as it enters a name or a value: U+0000 becomes U+FFFD
Run(s, i, e) == [k \in 1..(e - i) |-> IF s[i + k - 1] = NUL THEN FFFD ELSE s[i + k - 1]]

\* The tokenizer's states.  A state that collects characters takes the whole
\* run up to the next character that ends it in one step.
RECURSIVE Tokenizer(_, _, _, _, _)
Tokenizer(s, i, st, tok, out) ==
  LET eof == i > Len(s)
      c == IF eof THEN "" ELSE s[i]
      ref == CharRef(s, i)
  IN
  CASE st = "data" ->
         IF eof THEN out
         ELSE IF c = "&"
           THEN Tokenizer(s, i + ref.len, "data", tok, Append(out, ChrTok(<<ref.chr>>)))
         ELSE IF c = "<" THEN Tokenizer(s, i + 1, "tagOpen", tok, out)
         ELSE LET e == Find(s, i, {"&", "<"})
              IN Tokenizer(s, e, "data", tok, Append(out, ChrTok(SubSeq(s, i, e - 1))))
    [] st = "tagOpen" ->
         IF c \in Letters THEN Tokenizer(s, i, "tagName", NewTag("start"), out)
         ELSE IF c = "/" THEN Tokenizer(s, i + 1, "endTagOpen", tok, out)
         ELSE Tokenizer(s, i, "data", tok, Append(out, ChrTok(<<"<">>)))
    [] st = "endTagOpen" ->
         IF eof THEN Append(out, ChrTok(<<"<", "/">>))
         ELSE IF c \in Letters THEN Tokenizer(s, i, "tagName", NewTag("end"), out)
         ELSE IF c = ">" THEN Tokenizer(s, i + 1, "data", tok, out)
         ELSE Tokenizer(s, i, "bogusComment", NewTag("comment"), out)
    [] st = "bogusComment" ->
         IF eof THEN Append(out, TagTok("comment", tok.name, <<>>))
         ELSE IF c = ">"
           THEN Tokenizer(s, i + 1, "data", tok, Append(out, TagTok("comment", tok.name, <<>>)))
         ELSE LET e == Find(s, i, {">"})
              IN Tokenizer(s, e, st, [tok EXCEPT !.name = @ \o Run(s, i, e)], out)
    [] st = "tagName" ->
         IF eof THEN out
         ELSE IF c = " " THEN Tokenizer(s, i + 1, "beforeAttrName", tok, out)
         ELSE IF c = "/" THEN Tokenizer(s, i + 1, "selfClosingStartTag", tok, out)
         ELSE IF c = ">" THEN Tokenizer(s, i + 1, "data", tok, Emit(out, tok))
         ELSE LET e == Find(s, i, {" ", "/", ">"})
              IN Tokenizer(s, e, st, [tok EXCEPT !.name = @ \o Run(s, i, e)], out)
    [] st = "selfClosingStartTag" ->
         IF eof THEN out
         ELSE IF c = ">" THEN Tokenizer(s, i + 1, "data", tok, Emit(out, tok))
         ELSE Tokenizer(s, i, "beforeAttrName", tok, out)
    [] st = "beforeAttrName" ->
         IF eof \/ c = "/" \/ c = ">" THEN Tokenizer(s, i, "afterAttrName", tok, out)
         ELSE IF c = " " THEN Tokenizer(s, i + 1, st, tok, out)
         ELSE IF c = "="
           THEN Tokenizer(s, i + 1, "attrName", [StartAttr(tok) EXCEPT !.an = <<c>>], out)
         ELSE Tokenizer(s, i, "attrName", StartAttr(tok), out)
    [] st = "attrName" ->
         IF eof \/ c = " " \/ c = "/" \/ c = ">"
           THEN Tokenizer(s, i, "afterAttrName", tok, out)
         ELSE IF c = "=" THEN Tokenizer(s, i + 1, "beforeAttrValue", tok, out)
         ELSE LET e == Find(s, i, {" ", "/", ">", "="})
              IN Tokenizer(s, e, st, [tok EXCEPT !.an = @ \o Run(s, i, e)], out)
    [] st = "afterAttrName" ->
         IF eof THEN out
         ELSE IF c = " " THEN Tokenizer(s, i + 1, st, tok, out)
         ELSE IF c = "/" THEN Tokenizer(s, i + 1, "selfClosingStartTag", tok, out)
         ELSE IF c = "=" THEN Tokenizer(s, i + 1, "beforeAttrValue", tok, out)
         ELSE IF c = ">" THEN Tokenizer(s, i + 1, "data", tok, Emit(out, tok))
         ELSE Tokenizer(s, i, "attrName", StartAttr(tok), out)
    [] st = "beforeAttrValue" ->
         IF c = " " THEN Tokenizer(s, i + 1, st, tok, out)
         ELSE IF c = "\"" THEN Tokenizer(s, i + 1, "attrValueDoubleQuoted", tok, out)
         ELSE IF c = "'" THEN Tokenizer(s, i + 1, "attrValueSingleQuoted", tok, out)
         ELSE IF c = ">" THEN Tokenizer(s, i + 1, "data", tok, Emit(out, tok))
         ELSE Tokenizer(s, i, "attrValueUnquoted", tok, out)
    [] st = "attrValueDoubleQuoted" ->
         IF eof THEN out
         ELSE IF c = "\"" THEN Tokenizer(s, i + 1, "afterAttrValueQuoted", tok, out)
         ELSE IF c = "&"
           THEN Tokenizer(s, i + ref.len, st, [tok EXCEPT !.av = Append(@, ref.chr)], out)
         ELSE LET e == Find(s, i, {"\"", "&"})
              IN Tokenizer(s, e, st, [tok EXCEPT !.av = @ \o Run(s, i, e)], out)
    [] st = "attrValueSingleQuoted" ->
         IF eof THEN out
         ELSE IF c = "'" THEN Tokenizer(s, i + 1, "afterAttrValueQuoted", tok, out)
         ELSE IF c = "&"
           THEN Tokenizer(s, i + ref.len, st, [tok EXCEPT !.av = Append(@, ref.chr)], out)
         ELSE LET e == Find(s, i, {"'", "&"})
              IN Tokenizer(s, e, st, [tok EXCEPT !.av = @ \o Run(s, i, e)], out)
    [] st = "attrValueUnquoted" ->
         IF eof THEN out
         ELSE IF c = " " THEN Tokenizer(s, i + 1, "beforeAttrName", tok, out)
         ELSE IF c = ">" THEN Tokenizer(s, i + 1, "data", tok, Emit(out, tok))
         ELSE IF c = "&"
           THEN Tokenizer(s, i + ref.len, st, [tok EXCEPT !.av = Append(@, ref.chr)], out)
         ELSE LET e == Find(s, i, {" ", ">", "&"})
              IN Tokenizer(s, e, st, [tok EXCEPT !.av = @ \o Run(s, i, e)], out)
    [] st = "afterAttrValueQuoted" ->
         IF eof THEN out
         ELSE IF c = " " THEN Tokenizer(s, i + 1, "beforeAttrName", tok, out)
         ELSE IF c = "/" THEN Tokenizer(s, i + 1, "selfClosingStartTag", tok, out)
         ELSE IF c = ">" THEN Tokenizer(s, i + 1, "data", tok, Emit(out, tok))
         ELSE Tokenizer(s, i, "beforeAttrName", tok, out)

Tokenize(s) == Tokenizer(s, 1, "data", NewTag("start"), <<>>)

(***************************************************************************)
(* The host's tree construction, "in body" insertion mode, for ordinary    *)
(* elements (no implied end tags, no formatting elements, no void          *)
(* elements): the inputs use the tag q only.                               *)
(***************************************************************************)
Element(name, attrs, kids) ==
  [kind |-> "element", name |-> name, attrs |-> attrs, kids |-> kids, data |-> <<>>]
Text(data) ==
  [kind |-> "text", name |-> <<>>, attrs |-> <<>>, kids |-> <<>>, data |-> data]
Comment(data) ==
  [kind |-> "comment", name |-> <<>>, attrs |-> <<>>, kids |-> <<>>, data |-> data]

HtmlName == <<"h", "t", "m", "l">>
HeadName == <<"h", "e", "a", "d">>
BodyName == <<"b", "o", "d", "y">>

\* the stack of open elements, root first; an element joins its parent's
\* children when it is popped
RECURSIVE PopTo(_, _)
PopTo(stack, n) ==
  IF Len(stack) =< n THEN stack
  ELSE LET top == stack[Len(stack)]
           rest == SubSeq(stack, 1, Len(stack) - 1)
       IN PopTo([rest EXCEPT ![Len(rest)].kids = Append(@, top)], n)

AppendChild(stack, node) == [stack EXCEPT ![Len(stack)].kids = Append(@, node)]

\* character tokens join the text node that ends the current node's children,
\* or start one; U+0000 is ignored in body
InsertCharacters(stack, cs) ==
  LET kids == stack[Len(stack)].kids
      data == SelectSeq(cs, LAMBDA ch : ch # NUL)
  IN IF data = <<>> THEN stack
     ELSE IF kids # <<>> /\ kids[Len(kids)].kind = "text"
     THEN [stack EXCEPT ![Len(stack)].kids[Len(kids)].data = @ \o data]
     ELSE AppendChild(stack, Text(data))

RECURSIVE TreeBuilder(_, _, _)
TreeBuilder(tokens, k, stack) ==
  IF k > Len(tokens) THEN PopTo(stack, 1)[1]
  ELSE
    LET tok == tokens[k]
        open == {j \in 2..Len(stack) : stack[j].name = tok.name}
        top == CHOOSE j \in open : \A m \in open : m =< j
    IN CASE tok.type = "chr" ->
              TreeBuilder(tokens, k + 1, InsertCharacters(stack, tok.data))
         [] tok.type = "comment" ->
              TreeBuilder(tokens, k + 1, AppendChild(stack, Comment(tok.name)))
         [] tok.type = "start" ->
              TreeBuilder(tokens, k + 1,
                IF tok.name \in {HtmlName, HeadName, BodyName} THEN stack
                ELSE Append(stack, Element(tok.name, tok.attrs, <<>>)))
         [] tok.type = "end" ->
              TreeBuilder(tokens, k + 1,
                IF tok.name \in {HtmlName, HeadName, BodyName} \/ open = {} THEN stack
                ELSE PopTo(stack, top - 1))

\* the children the markup s parses to inside a container element
ParseFragment(s) == TreeBuilder(Tokenize(s), 1, <<Element(BodyName, <<>>, <<>>)>>).kids

\* parser.parseFromString(markup, 'text/html'): html > head, body
parseFromString(markup) ==
  Element(HtmlName, <<>>,
          <<Element(HeadName, <<>>, <<>>), Element(BodyName, <<>>, ParseFragment(markup))>>)

(***************************************************************************)
(* The host's serializer (the innerHTML getter).                           *)
(***************************************************************************)
EscapeTextData(s) ==
  ReplaceChar(ReplaceChar(ReplaceChar(s, "&", Amp), "<", Lt), ">", Gt)

EscapeAttrValue(s) == ReplaceChar(ReplaceChar(s, "&", Amp), "\"", Quot)

RECURSIVE SerializeAttrs(_)
SerializeAttrs(attrs) ==
  IF attrs = <<>> THEN <<>>
  ELSE <<" ">> \o Head(attrs).name \o <<"=", "\"">> \o EscapeAttrValue(Head(attrs).value)
       \o <<"\"">> \o SerializeAttrs(Tail(attrs))

RECURSIVE Serialize(_)
Serialize(nodes) ==
  IF nodes = <<>> THEN <<>>
  ELSE LET n == Head(nodes)
       IN (CASE n.kind = "text" -> EscapeTextData(n.data)
             [] n.kind = "comment" -> <<"<", "!", "-", "-">> \o n.data \o <<"-", "-", ">">>
             [] n.kind = "element" ->
                  <<"<">> \o n.name \o SerializeAttrs(n.attrs) \o <<">">>
                  \o Serialize(n.kids) \o <<"<", "/">> \o n.name \o <<">">>)
          \o Serialize(Tail(nodes))

innerHTML(node) == Serialize(node.kids)

(***************************************************************************)
(* The placeholder markers: /\$\$\$(\d+)\$\$\$/                            *)
(***************************************************************************)
Dollars == <<"$", "$", "$">>

RECURSIVE DigitRun(_, _)
DigitRun(s, p) == IF p =< Len(s) /\ s[p] \in Digits THEN 1 + DigitRun(s, p + 1) ELSE 0

\* the length of the match that starts at p, 0 when none does
MatchLen(s, p) ==
  IF ~HasAt(s, p, Dollars) THEN 0
  ELSE LET d == DigitRun(s, p + 3)
       IN IF d >= 1 /\ HasAt(s, p + 3 + d, Dollars) THEN d + 6 ELSE 0

\* the first position from p on where the pattern matches, 0 when none
Search(s, p) ==
  LET hits == {q \in p..Len(s) : MatchLen(s, q) > 0}
  IN IF hits = {} THEN 0 ELSE Least(hits)

\* Number(partId) of the match at p
RECURSIVE Number(_)
Number(digits) ==
  IF digits = <<>> THEN 0
  ELSE 10 * Number(SubSeq(digits, 1, Len(digits) - 1)) + DigitValue(digits[Len(digits)])

PartId(s, p) == Number(SubSeq(s, p + 3, p + MatchLen(s, p) - 4))

\* '' + i
RECURSIVE Decimal(_)
Decimal(i) == IF i < 10 THEN <<DigitChar(i)>> ELSE Decimal(i \div 10) \o <<DigitChar(i % 10)>>

Marker(i) == Dollars \o Decimal(i) \o Dollars

\* this.templateExpressionResults_[n], n counted from 0
Result(rs, n) == IF n + 1 =< Len(rs) THEN rs[n + 1] ELSE Undefined

replaceWithExpressionResult_(rs, partId) == Result(rs, partId)

\* s.replace(INTERPOLATION_REGEXP_TEXT_, replaceWithExpressionResult_): every
\* match gives way to the string form of the result it numbers
RECURSIVE ReplaceMarkers(_, _, _)
ReplaceMarkers(s, p, rs) ==
  LET q == Search(s, p)
  IN IF q = 0 THEN Slice(s, p, Len(s))
     ELSE Slice(s, p, q - 1) \o ToString(replaceWithExpressionResult_(rs, PartId(s, q)))
          \o ReplaceMarkers(s, q + MatchLen(s, q), rs)

\* the results the matches in s number, in the order of the matches
RECURSIVE MatchedResults(_, _, _)
MatchedResults(s, p, rs) ==
  LET q == Search(s, p)
  IN IF q = 0 THEN <<>>
     ELSE <<Result(rs, PartId(s, q))>> \o MatchedResults(s, q + MatchLen(s, q), rs)

(***************************************************************************)
(* processNode_ and the walk of the node iterator.                         *)
(***************************************************************************)
isLeafElementNode_(node) ==
  /\ node.kind = "element"
  /\ Len(node.kids) = 1
  /\ node.kids[1].kind = "text"

\* es6: the first match anywhere in the value decides, and setAttribute
\* overwrites the whole value.  goog: every match is replaced in place.
ProcessAttribute(c, attr, rs) ==
  LET q == Search(attr.value, 1)
  IN IF q = 0 THEN attr
     ELSE IF c = "es6"
       THEN [attr EXCEPT !.value = ToString(Result(rs, PartId(attr.value, q)))]
     ELSE [attr EXCEPT !.value = ReplaceMarkers(attr.value, 1, rs)]

\* what one call of processNode_ comes to.  thrown: the value the instanceof
\* test refused; replaced: the node's children were set anew through innerHTML
Processed(node, replaced) ==
  [status |-> "ok", node |-> node, thrown |-> NoValue, replaced |-> replaced]

Thrown(node, value) ==
  [status |-> "TypeError", node |-> node, thrown |-> value, replaced |-> FALSE]

\* the loop over node.attributes
ProcessAttributes(c, node, rs) ==
  IF node.kind = "element"
  THEN [node EXCEPT !.attrs = [k \in 1..Len(node.attrs) |->
                                 ProcessAttribute(c, node.attrs[k], rs)]]
  ELSE node

\* the results among values that are not instances of window.TrustedHTML
Refused(values, win) ==
  {k \in 1..Len(values) : ~InstanceOfWindowTrustedHTML(values[k], win)}

\* node.innerHTML = node.innerHTML.replace(...): the callback throws at the
\* first match whose result is refused; otherwise the new markup is parsed
ReplaceInnerHTML(c, node, markup, values, refused, rs) ==
  IF refused # {} THEN Thrown(node, values[Least(refused)])
  ELSE Processed([node EXCEPT !.kids =
         ParseFragment(toString(TrustedHTML(c, ReplaceMarkers(markup, 1, rs))))], TRUE)

CheckedInnerHTML(c, node, markup, values, rs, win) ==
  ReplaceInnerHTML(c, node, markup, values, Refused(values, win), rs)

\* the leaf-element branch and the text-node branch
ProcessContent(c, node, markup, rs, win) ==
  IF isLeafElementNode_(node) /\ Search(markup, 1) # 0
  THEN CheckedInnerHTML(c, node, markup, MatchedResults(markup, 1, rs), rs, win)
  ELSE IF node.kind = "text" /\ Search(node.data, 1) # 0
  THEN Processed([node EXCEPT !.data = ReplaceMarkers(node.data, 1, rs)], FALSE)
  ELSE Processed(node, FALSE)

ProcessAfterAttributes(c, node, rs, win) ==
  ProcessContent(c, node, IF node.kind = "element" THEN innerHTML(node) ELSE <<>>, rs, win)

processNode_(c, node, rs, win) ==
  ProcessAfterAttributes(c, ProcessAttributes(c, node, rs), rs, win)

\* while (node = iterator.nextNode()) this.processNode_(node): the iterator is
\* live, so after a node it goes on to the children the node has by then.
\* depth counts the substitutions the node lies inside.
RECURSIVE Iterate(_, _, _, _, _)
RECURSIVE IterateChildren(_, _, _, _, _, _)
Descend(c, r, rs, win, depth) ==
  IF r.status # "ok" THEN r
  ELSE IF depth > MaxNesting
    THEN [status |-> "unfinished", node |-> r.node, thrown |-> NoValue, replaced |-> FALSE]
  ELSE IterateChildren(c, r.node, 1, rs, win, depth)

DescendFrom(c, r, rs, win, depth) ==
  Descend(c, r, rs, win, IF r.replaced THEN depth + 1 ELSE depth)

Iterate(c, node, rs, win, depth) ==
  DescendFrom(c, processNode_(c, node, rs, win), rs, win, depth)

NextSibling(c, node, k, r, rs, win, depth) ==
  IF r.status # "ok" THEN r
  ELSE IterateChildren(c, [node EXCEPT !.kids[k] = r.node], k + 1, rs, win, depth)

IterateChildren(c, node, k, rs, win, depth) ==
  IF k > Len(node.kids) THEN Processed(node, FALSE)
  ELSE NextSibling(c, node, k, Iterate(c, node.kids[k], rs, win, depth), rs, win, depth)

(***************************************************************************)
(* interpolate_ and fromTemplateLiteral.                                   *)
(***************************************************************************)
\* the join loop without the hasOwnProperty test: a marker after every part
RECURSIVE JoinEveryPart(_, _, _)
JoinEveryPart(strings, rs, i) ==
  IF i >= Len(strings) THEN <<>>
  ELSE strings[i + 1] \o Marker(i) \o JoinEveryPart(strings, rs, i + 1)

\* the join loop: part i, then the marker of i when expression i exists
RECURSIVE Join(_, _, _)
Join(strings, rs, i) ==
  IF i >= Len(strings) THEN <<>>
  ELSE strings[i + 1] \o (IF i + 1 =< Len(rs) THEN Marker(i) ELSE <<>>)
       \o Join(strings, rs, i + 1)

\* the es6 copy wraps the fragment in a body element before parsing
Wrapped(c, replaced) ==
  IF c = "es6"
  THEN <<"<", "b", "o", "d", "y", ">">> \o replaced \o <<"<", "/", "b", "o", "d", "y", ">">>
  ELSE replaced

\* the outcome of interpolate_: status, the new inner_ (doc.body.innerHTML),
\* the refused value
Walked(r) ==
  [status |-> r.status,
   inner |-> IF r.status = "ok" THEN innerHTML(r.node.kids[2]) ELSE <<>>,
   thrown |-> r.thrown]

interpolate_(c, strings, rs, win) ==
  Walked(Iterate(c, parseFromString(Wrapped(c, Join(strings, rs, 0))), rs, win, 0))

TemplateCall(c, strings, expressions) ==
  [NoCall EXCEPT !.op = "fromTemplateLiteral", !.copy = c,
                 !.strings = strings, !.expressions = expressions]

Outcome(call, c, r) ==
  IF r.status = "ok"
  THEN [call EXCEPT !.status = "ok", !.value = TrustedHTML(c, r.inner)]
  ELSE [call EXCEPT !.status = r.status, !.culprit = r.thrown]

fromTemplateLiteral(c, strings, expressions) ==
  /\ ret = NoCall
  /\ c \in loaded
  /\ ret' = Outcome(TemplateCall(c, strings, expressions), c,
                    interpolate_(c, strings, expressions, windowTrustedHTML))
  /\ UNCHANGED <<sanitizers_, allowUnsafelyCreate_, windowTrustedHTML, loaded, held>>

(***************************************************************************)
(* The inputs callers draw.                                                *)
(***************************************************************************)
\* arguments of escape and unsafelyCreate
RawInputs ==
  { <<"x">>,
    <<"<", "q", ">", "x", "<", "/", "q", ">">>,
    <<"x", "$", "$", "$", "1", "$", "$", "$">>,
    <<"<", "q", ">", "$", "$", "$", "1", "$", "$", "$", "<", "/", "q", ">">> }

\* arguments of escape in SpecEscape: every string up to MaxEscapeLen over the
\* characters escape replaces and the characters of an entity
EscapeAlphabet == {"&", "<", ">", "\"", "'", NUL, "l", "t", ";"}
EscapeInputs == UNION {[1..n -> EscapeAlphabet] : n \in 0..MaxEscapeLen}

\* values written to allowUnsafelyCreate
GateValues == {Bool(TRUE), Bool(FALSE), Undefined, Str(<<"x">>)}

\* A template literal is a sequence of lexemes; "slot" is a ${...}.
Lexemes == {"open", "close", "attr", "quote", "text", "marker", "slot"}

LexemeText(l) ==
  CASE l = "open" -> <<"<", "q", ">">>
    [] l = "close" -> <<"<", "/", "q", ">">>
    [] l = "attr" -> <<"<", "q", " ", "t", "=", "\"">>
    [] l = "quote" -> <<"\"", ">">>
    [] l = "text" -> <<"x">>
    [] l = "marker" -> Marker(0)      \* author-written text of the marker shape

Slots(skeleton) == Cardinality({k \in 1..Len(skeleton) : skeleton[k] = "slot"})

Skeletons(n) ==
  {sk \in UNION {[1..k -> Lexemes] : k \in 0..n} : Slots(sk) =< MaxHoles}

\* the strings array of the template literal: the text between the slots
RECURSIVE Strings(_)
Strings(skeleton) ==
  IF skeleton = <<>> THEN << <<>> >>
  ELSE LET rest == Strings(Tail(skeleton))
       IN IF Head(skeleton) = "slot" THEN << <<>> >> \o rest
          ELSE <<LexemeText(Head(skeleton)) \o Head(rest)>> \o Tail(rest)

\* expression results that are not TrustedHTML
PlainValues == {Str(<<"v">>), Str(<<"<", "q", ">">>), Undefined}

ExpressionValues == PlainValues \cup (IF held.t = "TrustedHTML" THEN {held} ELSE {})

\* a tagged template passes one expression per slot; a direct call may pass none
ExpressionLists(skeleton) == [1..Slots(skeleton) -> ExpressionValues] \cup { <<>> }

\* a caller escapes any of the short strings
EscapeAny(c) ==
  /\ ret = NoCall
  /\ \E html \in EscapeInputs : escape(c, html)

\* a caller tags a template literal of at most n lexemes
TaggedTemplate(c, n) ==
  /\ ret = NoCall
  /\ \E sk \in Skeletons(n) : \E es \in ExpressionLists(sk) :
       fromTemplateLiteral(c, Strings(sk), es)

\* a template literal of at most n lexemes resolved with no results at all
TaggedLiteral(c, n) ==
  /\ ret = NoCall
  /\ \E sk \in Skeletons(n) : fromTemplateLiteral(c, Strings(sk), <<>>)

(***************************************************************************)
(* The caller: one call at a time; a returned TrustedHTML may be kept.     *)
(***************************************************************************)
Return ==
  /\ ret # NoCall
  /\ ret' = NoCall
  /\ UNCHANGED <<sanitizers_, allowUnsafelyCreate_, windowTrustedHTML, loaded, held>>

\* Values made by the plain constructors are kept for a later interpolation;
\* what fromTemplateLiteral returns is not fed back, so the values stay finite.
Keep ==
  /\ ret.op \in {"escape", "sanitize", "unsafelyCreate"}
  /\ ret.status = "ok"
  /\ held' = ret.value
  /\ ret' = NoCall
  /\ UNCHANGED <<sanitizers_, allowUnsafelyCreate_, windowTrustedHTML, loaded>>

\* The export block: the first copy evaluated takes the global name.
LoadModule(c) ==
  /\ ret = NoCall
  /\ c \notin loaded
  /\ loaded' = loaded \cup {c}
  /\ windowTrustedHTML' = IF windowTrustedHTML = "undefined" THEN c ELSE windowTrustedHTML
  /\ UNCHANGED <<sanitizers_, allowUnsafelyCreate_, held, ret>>

(***************************************************************************)
(* Specifications.                                                         *)
(***************************************************************************)
ModuleState ==
  /\ sanitizers_ = [own |-> [id \in SanitizerIds |-> Absent], frozen |-> FALSE]
  /\ allowUnsafelyCreate_ = [allowed |-> TRUE, frozen |-> FALSE]
  /\ held = NoValue
  /\ ret = NoCall

\* trustedhtml.js evaluated in a page that had no TrustedHTML
Init ==
  /\ ModuleState
  /\ windowTrustedHTML = "es6"
  /\ loaded = {"es6"}

\* the page before either file is evaluated
InitCopies ==
  /\ ModuleState
  /\ windowTrustedHTML = "undefined"
  /\ loaded = {}

\* configuration and the three plain constructors
Next ==
  \/ \E html \in RawInputs : escape("es6", html)
  \/ \E html \in RawInputs : \E id \in SanitizerIds \cup {Omitted} : sanitize(html, id)
  \/ \E f \in Sanitizers : \E id \in SanitizerIds \cup {Omitted} : registerSanitizer(f, id)
  \/ \E html \in RawInputs : unsafelyCreate("es6", html)
  \/ \E v \in GateValues : setAllowUnsafelyCreate(v)
  \/ getAllowUnsafelyCreate
  \/ freezeConfiguration
  \/ Return

Spec == Init /\ [][Next]_vars

\* escape alone, over every short string
NextEscape ==
  \/ EscapeAny("es6")
  \/ Return

SpecEscape == Init /\ [][NextEscape]_vars

\* template literals, with trusted values made by escape and unsafelyCreate
NextTemplate ==
  \/ \E html \in RawInputs : escape("es6", html)
  \/ \E html \in RawInputs : unsafelyCreate("es6", html)
  \/ TaggedTemplate("es6", MaxLen)
  \/ Keep
  \/ Return

SpecTemplate == Init /\ [][NextTemplate]_vars

\* both files evaluated in one page, in either order
Copies == {"es6", "goog"}

NextCopies ==
  \/ \E c \in Copies : LoadModule(c)
  \/ \E c \in Copies : \E html \in RawInputs : escape(c, html)
  \/ \E c \in Copies : \E html \in RawInputs : unsafelyCreate(c, html)
  \/ \E c \in Copies : TaggedTemplate(c, MaxLenCopies)
  \/ Keep
  \/ Return

SpecCopies == InitCopies /\ [][NextCopies]_vars

\* template literals without interpolation
NextLiteral ==
  \/ TaggedLiteral("es6", MaxLiteralLen)
  \/ Return

SpecLiteral == Init /\ [][NextLiteral]_vars

(***************************************************************************)
(* C2: once the configuration is frozen, registerSanitizer and the         *)
(* allowUnsafelyCreate setter throw and change nothing; freezing again     *)
(* succeeds and changes nothing.                                           *)
(***************************************************************************)
Frozen == sanitizers_.frozen /\ allowUnsafelyCreate_.frozen

\* C2: in every step taken from a frozen configuration the registry and the
\* gate keep their values, a registerSanitizer or setter call ends in a
\* TypeError, and a freezeConfiguration call ends normally; and every
\* freezeConfiguration call leaves both objects frozen.
C2_FrozenConfigurationIsFinal ==
  [][/\ Frozen =>
          /\ sanitizers_' = sanitizers_
          /\ allowUnsafelyCreate_' = allowUnsafelyCreate_
          /\ (ret'.op \in {"registerSanitizer", "setAllowUnsafelyCreate"}
                => ret'.status = "TypeError")
          /\ (ret'.op = "freezeConfiguration" => ret'.status = "ok")
     /\ ret'.op = "freezeConfiguration" => Frozen'
    ]_vars

\* a sanitizer was registered, the configuration frozen, and a later
\* registerSanitizer call threw
C2_Witness ==
  /\ Frozen
  /\ sanitizers_.own["strict"] = "blank"
  /\ ~allowUnsafelyCreate_.allowed
  /\ ret.op = "registerSanitizer"
  /\ ret.status = "TypeError"

SanitizerId(call) == IF call.id = Omitted THEN DEFAULT_SANITIZER_ ELSE call.id

\* C4: sanitize throws TypeError for every id no registerSanitizer call
\* wrote, "toString" and "constructor" included, and for a registered id
\* returns a TrustedHTML of what the function last registered gives for html.
C4_UnregisteredIdFails ==
  ret.op = "sanitize" =>
    IF sanitizers_.own[SanitizerId(ret)] = Absent
    THEN ret.status = "TypeError" /\ ret.value = NoValue
    ELSE /\ ret.status = "ok"
         /\ ret.value = TrustedHTML("es6", Apply(sanitizers_.own[SanitizerId(ret)], ret.html))

\* sanitize(html, "toString") with nothing registered returned a value
C4_Witness ==
  /\ ret.op = "sanitize"
  /\ ret.id = "toString"
  /\ sanitizers_.own["toString"] = Absent
  /\ ret.status = "ok"
  /\ ret.value = TrustedHTML("es6", ObjectObject)

(***************************************************************************)
(* C5: escape.                                                             *)
(***************************************************************************)
EscapeSequences == {Amp, Lt, Gt, Quot, Apos, Zero}

Decoded(sequence) ==
  CASE sequence = Amp -> "&"
    [] sequence = Lt -> "<"
    [] sequence = Gt -> ">"
    [] sequence = Quot -> "\""
    [] sequence = Apos -> "'"
    [] sequence = Zero -> NUL

\* the six sequences of s from position i on put back, everything else kept
RECURSIVE Decode(_, _)
Decode(s, i) ==
  IF i > Len(s) THEN <<>>
  ELSE IF \E q \in EscapeSequences : HasAt(s, i, q)
    THEN LET q == CHOOSE q \in EscapeSequences : HasAt(s, i, q)
         IN <<Decoded(q)>> \o Decode(s, i + Len(q))
  ELSE <<s[i]>> \o Decode(s, i + 1)

\* C5: the text escape returns holds none of < > " ' NUL, holds & only where
\* one of the six sequences starts, and decodes to the argument.
C5_EscapeRoundTrip ==
  ret.op = "escape" =>
    /\ ret.status = "ok"
    /\ \A p \in 1..Len(toString(ret.value)) :
         /\ toString(ret.value)[p] \notin {"<", ">", "\"", "'", NUL}
         /\ toString(ret.value)[p] = "&" =>
              \E q \in EscapeSequences : HasAt(toString(ret.value), p, q)
    /\ Decode(toString(ret.value), 1) = ret.html

\* escape of the text "&lt;" wrote the ampersand as &amp; and no more
C5_Witness ==
  /\ ret.op = "escape"
  /\ ret.html = Lt
  /\ toString(ret.value) = Amp \o <<"l", "t", ";">>

(***************************************************************************)
(* What a call of fromTemplateLiteral was given, read off its record.      *)
(***************************************************************************)
\* the joined markup of the call, and the nodes of the template: the
\* children of the body of the document the call parses
Joined(call) == Join(call.strings, call.expressions, 0)
Document(call) == parseFromString(Wrapped(call.copy, Joined(call)))
Fragment(call) == Document(call).kids[2].kids

\* the results numbered by the markers inside leaf elements, in document order
RECURSIVE LeafResults(_, _)
RECURSIVE LeafResultsOf(_, _)
LeafResultsOf(node, rs) ==
  IF isLeafElementNode_(node) THEN MatchedResults(innerHTML(node), 1, rs)
  ELSE IF node.kind = "element" THEN LeafResults(node.kids, rs)
  ELSE <<>>

LeafResults(nodes, rs) ==
  IF nodes = <<>> THEN <<>>
  ELSE LeafResultsOf(Head(nodes), rs) \o LeafResults(Tail(nodes), rs)

\* the fragment is one text node and nothing else
BareText(nodes) == Len(nodes) = 1 /\ nodes[1].kind = "text"

\* the elements of a forest, without their attributes and the text
RECURSIVE Shape(_)
ElementsOf(nodes) == SelectSeq(nodes, LAMBDA n : n.kind = "element")
ShapeOf(es) == [k \in 1..Len(es) |-> [name |-> es[k].name, kids |-> Shape(es[k].kids)]]
Shape(nodes) == ShapeOf(ElementsOf(nodes))

\* all elements of a forest, in document order
RECURSIVE Elements(_)
Elements(nodes) ==
  IF nodes = <<>> THEN <<>>
  ELSE IF Head(nodes).kind = "element"
    THEN <<Head(nodes)>> \o Elements(Head(nodes).kids) \o Elements(Tail(nodes))
  ELSE Elements(Tail(nodes))

\* all attributes of the elements of a forest
RECURSIVE AttributesOf(_)
AttributesOf(es) == IF es = <<>> THEN <<>> ELSE Head(es).attrs \o AttributesOf(Tail(es))
Attributes(nodes) == AttributesOf(Elements(nodes))

\* the text nodes of a forest that are not the only child of their parent
RECURSIVE MixedText(_)
MixedTextOf(node) ==
  IF node.kind = "element" /\ ~isLeafElementNode_(node) THEN MixedText(node.kids)
  ELSE IF node.kind = "text" THEN <<node>>
  ELSE <<>>
MixedText(nodes) ==
  IF nodes = <<>> THEN <<>> ELSE MixedTextOf(Head(nodes)) \o MixedText(Tail(nodes))

\* The walk that resolves every marker where the join loop put it: a node whose
\* children were set from a result is not entered.
RECURSIVE Once(_, _, _, _)
RECURSIVE OnceChildren(_, _, _, _, _)
OnceDescend(c, r, rs, win) ==
  IF r.status # "ok" \/ r.replaced THEN r ELSE OnceChildren(c, r.node, 1, rs, win)

Once(c, node, rs, win) == OnceDescend(c, processNode_(c, node, rs, win), rs, win)

OnceNext(c, node, k, r, rs, win) ==
  IF r.status # "ok" THEN r
  ELSE OnceChildren(c, [node EXCEPT !.kids[k] = r.node], k + 1, rs, win)

OnceChildren(c, node, k, rs, win) ==
  IF k > Len(node.kids) THEN Processed(node, FALSE)
  ELSE OnceNext(c, node, k, Once(c, node.kids[k], rs, win), rs, win)

ResolvedOnce(call, win) ==
  Walked(Once(call.copy, Document(call), call.expressions, win))

(***************************************************************************)
(* C1: the trust check of the leaf-element rule.                           *)
(***************************************************************************)
LeafRule(call, values, win) ==
  IF \E k \in 1..Len(values) : values[k].t # "TrustedHTML"
  THEN call.status = "TypeError" /\ call.value = NoValue
  ELSE /\ call.status = "ok"
       /\ call.value = TrustedHTML(call.copy, ResolvedOnce(call, win).inner)

\* C1: when a marker inside a leaf element of the template numbers a result
\* that is no TrustedHTML the call throws TypeError and returns nothing; when
\* all of them number a TrustedHTML the call returns, with the results'
\* content in place of the markers.  (A template that is bare text is C7's.)
C1_LeafElementTrustCheck ==
  ret.op = "fromTemplateLiteral" /\ ~BareText(Fragment(ret)) =>
    LeafRule(ret, LeafResults(Fragment(ret), ret.expressions), windowTrustedHTML)

\* <q>${T}</q>${"v"} with T = unsafelyCreate("<q>$$$1$$$</q>"): every marker
\* in a leaf element numbers a TrustedHTML, and the call throws
C1_Witness ==
  /\ ret.op = "fromTemplateLiteral"
  /\ ret.strings = Strings(<<"open", "slot", "close", "slot">>)
  /\ ret.expressions = <<TrustedHTML("es6", <<"<", "q", ">", "$", "$", "$", "1", "$", "$", "$", "<", "/", "q", ">">>), Str(<<"v">>)>>
  /\ ret.status = "TypeError"
  /\ ret.culprit = Str(<<"v">>)

(***************************************************************************)
(* C10: a result is resolved only where the join loop put its marker.      *)
(***************************************************************************)
\* C10: the call ends as the walk that does not enter substituted content
\* ends: marker-shaped text inside a substituted TrustedHTML stays as it is.
C10_SubstitutedContentIsNotResolved ==
  ret.op = "fromTemplateLiteral" =>
    ret = Outcome(TemplateCall(ret.copy, ret.strings, ret.expressions), ret.copy,
                  ResolvedOnce(ret, windowTrustedHTML))

\* <q>${T}</q> with T = escape("x$$$1$$$"): the marker inside T is resolved
C10_Witness ==
  /\ ret.op = "fromTemplateLiteral"
  /\ ret.strings = Strings(<<"open", "slot", "close">>)
  /\ ret.expressions = <<TrustedHTML("es6", <<"x", "$", "$", "$", "1", "$", "$", "$">>)>>
  /\ ret.status = "ok"
  /\ toString(ret.value) = <<"<", "q", ">", "x", "u", "n", "d", "e", "f", "i", "n", "e", "d", "<", "/", "q", ">">>

(***************************************************************************)
(* C6: the attribute rule.                                                 *)
(***************************************************************************)
ExactMarker(value) == value # <<>> /\ MatchLen(value, 1) = Len(value)

AttributeRule(c, attr, rs) ==
  IF ExactMarker(attr.value)
  THEN ProcessAttribute(c, attr, rs).value = ToString(Result(rs, PartId(attr.value, 1)))
  ELSE IF Search(attr.value, 1) = 0
    THEN ProcessAttribute(c, attr, rs) = attr
  ELSE ProcessAttribute(c, attr, rs).value #
         ToString(Result(rs, PartId(attr.value, Search(attr.value, 1))))

AttributeRules(c, attrs, rs) == \A k \in 1..Len(attrs) : AttributeRule(c, attrs[k], rs)

\* every marker of the call lies in an attribute value
NoMarkerInText(call) ==
  /\ LeafResults(Fragment(call), call.expressions) = <<>>
  /\ \A k \in 1..Len(MixedText(Fragment(call))) :
       Search(MixedText(Fragment(call))[k].data, 1) = 0

\* C6: an attribute whose whole value is one marker gets the string form of
\* the result the marker numbers; an attribute without a marker is left
\* alone; an attribute holding a marker and more is not overwritten by the
\* result; and a call whose markers all lie in attribute values returns
\* markup with the elements the template has.
C6_AttributeRule ==
  ret.op = "fromTemplateLiteral" =>
    /\ AttributeRules(ret.copy, Attributes(Fragment(ret)), ret.expressions)
    /\ NoMarkerInText(ret) =>
         /\ ret.status = "ok"
         /\ Shape(ParseFragment(toString(ret.value))) = Shape(Fragment(ret))

\* <q t="x${"v"}">: the x of the attribute value is gone
C6_Witness ==
  /\ ret.op = "fromTemplateLiteral"
  /\ ret.strings = Strings(<<"attr", "text", "slot", "quote">>)
  /\ ret.expressions = <<Str(<<"v">>)>>
  /\ ret.status = "ok"
  /\ toString(ret.value) = <<"<", "q", " ", "t", "=", "\"", "v", "\"", ">", "<", "/", "q", ">">>

(***************************************************************************)
(* C7: the text-node rule.                                                 *)
(***************************************************************************)
\* C7: a call none of whose markers lies in a leaf element of the template
\* returns, with the elements the template has; a template that is bare text
\* gives that text with every marker replaced by the string form of its
\* result.
C7_TextNodeRule ==
  ret.op = "fromTemplateLiteral"
    /\ LeafResults(Fragment(ret), ret.expressions) = <<>> =>
      /\ ret.status = "ok"
      /\ Shape(ParseFragment(toString(ret.value))) = Shape(Fragment(ret))
      /\ BareText(Fragment(ret)) =>
           toString(ret.value) =
             EscapeTextData(ReplaceMarkers(Fragment(ret)[1].data, 1, ret.expressions))

\* x${"v"}: a template of text and one string throws
C7_Witness ==
  /\ ret.op = "fromTemplateLiteral"
  /\ ret.strings = Strings(<<"text", "slot">>)
  /\ ret.expressions = <<Str(<<"v">>)>>
  /\ ret.status = "TypeError"
  /\ ret.culprit = Str(<<"v">>)

(***************************************************************************)
(* C9: the trust check when both files are evaluated.                      *)
(***************************************************************************)
\* C9: whichever file made a TrustedHTML and whichever file resolves the
\* template, the leaf-element rule does not refuse a TrustedHTML; and a call
\* that returns had a TrustedHTML for every marker inside a leaf element.
C9_EitherCopyIsTrusted ==
  ret.op = "fromTemplateLiteral" =>
    /\ ret.status = "TypeError" => ret.culprit.t # "TrustedHTML"
    /\ ret.status = "ok" =>
         \A k \in 1..Len(LeafResults(<<Document(ret)>>, ret.expressions)) :
           LeafResults(<<Document(ret)>>, ret.expressions)[k].t = "TrustedHTML"

\* trustedhtml.js took the global name, and its fromTemplateLiteral refused
\* a TrustedHTML the other file's escape made
C9_Witness ==
  /\ windowTrustedHTML = "es6"
  /\ ret.op = "fromTemplateLiteral"
  /\ ret.copy = "es6"
  /\ ret.strings = Strings(<<"open", "slot", "close">>)
  /\ ret.status = "TypeError"
  /\ ret.culprit = TrustedHTML("goog", <<"x">>)

====
